---- MODULE Spec2Model ----
(***************************************************************************)
(* PCF8574 I2C 8-bit IO expander driver (src/PCF8574.cpp, src/PCF8574.h).  *)
(*                                                                         *)
(* The driver object's fields are the variables _interfaceIndex, _dataOut, *)
(* _dataIn, _buttonMask and _error.  The I2C transport (Wire) and the chip *)
(* behind it are the environment: devicePresent says whether a chip        *)
(* answers on the bus, latch is the chip's output latch, and bus is the    *)
(* list of bus transactions issued by the most recent public call.         *)
(* history lists the public calls made so far, each with its arguments and *)
(* its return value; phase counts the calls made since the initial state.  *)
(*                                                                         *)
(* A behaviour is a use of one driver object: it has been constructed and  *)
(* possibly prepared by earlier calls (Init), then one public member       *)
(* function is called with any arguments and any outcome of its bus        *)
(* transactions, and then the caller looks at the result: it calls         *)
(* lastError(), or reads back the pin it has just written.                 *)
(*                                                                         *)
(* pc, temp and atomic belong to the use of one driver object by two       *)
(* callers (SpecCallers): pc is each caller's position in its call, temp1  *)
(* the local variable temp of the first caller's readButton8, atomic says  *)
(* whether the callers lock the object for the length of a public call.    *)
(* writeFailed belongs to the unbroken sequences of calls (SpecSeq): it    *)
(* says whether a bus write has failed since begin().                      *)
(***************************************************************************)
EXTENDS Integers, Sequences, FiniteSets, TLC

VARIABLES _interfaceIndex, _dataOut, _dataIn, _buttonMask, _error,
          devicePresent, latch, bus, history, phase,
          pc, temp1, atomic, writeFailed

vars == <<_interfaceIndex, _dataOut, _dataIn, _buttonMask, _error,
          devicePresent, latch, bus, history, phase,
          pc, temp1, atomic, writeFailed>>

(***************************************************************************)
(* Program constants.                                                      *)
(***************************************************************************)
PCF8574_OK == 0
PCF8574_PIN_ERROR == 129
PCF8574_I2C_ERROR == 130
PCF8574_INTERFACE_NOT_AVAILABLE == 131
PCF8574_INTERFACE_NO_OF_INTERFACES == 1
LOW == 0
HIGH == 1

(***************************************************************************)
(* Bounds of the model.                                                    *)
(***************************************************************************)
\* pins are drawn from 0..MaxPin (the code takes any uint8_t; 0..7 are valid)
MaxPin == 8
\* endTransmission() returns a status in 0..MaxStatus (0 is success)
MaxStatus == 2
\* requestFrom(address, 1) returns a byte count in 0..MaxCount
MaxCount == 2
\* bus selector indices given to the constructor: 0..MaxInterfaceIndex
MaxInterfaceIndex == 1

\* calls of lastError() / read-backs the caller makes after the call it looks at
MaxObservations == 2
\* largest shift or rotate count tried, besides 255
MaxShift == 8
\* calls made after begin() in a sequence of calls
MaxCalls == 3

Pins == 0..MaxPin
\* bytes the callers pass as whole-byte arguments (values, masks)
ByteArgs == {0, 1, 15, 128, 165, 255}
\* the value argument of write(pin, value): LOW, HIGH and another non-zero byte
PinValues == {0, 1, 255}
\* levels the external circuit puts on the eight lines during a read
\* (255: nothing pulls a line low, the chip reads back its own latch)
LineLevels == {255, 195}
\* what the chip's latch may hold when the driver is constructed (the chip
\* keeps its latch across a reset of the host)
PowerOnLatch == {255, 60}
\* masks the caller may have set with setButtonMask() before
ButtonMasks == {255, 15}

(***************************************************************************)
(* uint8_t arithmetic.                                                     *)
(***************************************************************************)
Pow2(i) == 2 ^ i
Bit(x, i) == (x \div Pow2(i)) % 2
\* a & b, a | b and a ^ b on uint8_t operands, bit by bit
AndBit(a, b, i) == Bit(a, i) * Bit(b, i) * Pow2(i)
OrBit(a, b, i) == (IF Bit(a, i) + Bit(b, i) > 0 THEN 1 ELSE 0) * Pow2(i)
XorBit(a, b, i) == ((Bit(a, i) + Bit(b, i)) % 2) * Pow2(i)
BitAnd(a, b) ==
  AndBit(a, b, 0) + AndBit(a, b, 1) + AndBit(a, b, 2) + AndBit(a, b, 3)
  + AndBit(a, b, 4) + AndBit(a, b, 5) + AndBit(a, b, 6) + AndBit(a, b, 7)
BitOr(a, b) ==
  OrBit(a, b, 0) + OrBit(a, b, 1) + OrBit(a, b, 2) + OrBit(a, b, 3)
  + OrBit(a, b, 4) + OrBit(a, b, 5) + OrBit(a, b, 6) + OrBit(a, b, 7)
BitXor(a, b) ==
  XorBit(a, b, 0) + XorBit(a, b, 1) + XorBit(a, b, 2) + XorBit(a, b, 3)
  + XorBit(a, b, 4) + XorBit(a, b, 5) + XorBit(a, b, 6) + XorBit(a, b, 7)
\* ~x truncated to uint8_t
BitNot(a) == 255 - a
\* 1 << pin (an int; only its low eight bits reach a uint8_t)
PinMask(pin) == Pow2(pin)


(***************************************************************************)
(* The driver state a member function works on: the fields it can change,  *)
(* the chip's latch, the bus transactions the call has issued so far and   *)
(* the value it returns.                                                   *)
(***************************************************************************)
Void == -1
NoByte == -1

\* one bus transaction: a write of one byte ("w": byte sent, res = status of
\* endTransmission) or a request for n bytes ("r": res = count returned by
\* requestFrom, byte = the byte then read, NoByte when none was read)
Tx(kind, n, byte, res) == [kind |-> kind, n |-> n, byte |-> byte, res |-> res]

\* outcomes the transport can produce: with no chip on the bus every write is
\* NACKed and every request delivers nothing
Statuses == IF devicePresent THEN 0..MaxStatus ELSE 1..MaxStatus
Counts == IF devicePresent THEN 0..MaxCount ELSE {0}

\* the byte the chip puts on the bus: a line reads high when its latch bit is
\* high and the external circuit does not pull it low
DeviceByte(d, lines) == BitAnd(d.latch, lines)

InterfaceAvailable == _interfaceIndex < PCF8574_INTERFACE_NO_OF_INTERFACES

\* PCF8574::PCF8574(interfaceIndex, deviceAddress)
Constructed(latch0) ==
  [dataOut |-> 255, dataIn |-> 0,
   error |-> IF _interfaceIndex >= PCF8574_INTERFACE_NO_OF_INTERFACES
             THEN PCF8574_INTERFACE_NOT_AVAILABLE
             ELSE PCF8574_OK,
   latch |-> latch0, bus |-> <<>>, ret |-> Void]

\* read8() that returns the cached byte on a short read without setting the
\* error
read8_KeepsError(d, count, lines) ==
  IF InterfaceAvailable
  THEN IF count # 1
       THEN [d EXCEPT !.bus = Append(@, Tx("r", 1, NoByte, count)),
                      !.ret = d.dataIn]
       ELSE [d EXCEPT !.dataIn = DeviceByte(d, lines),
                      !.bus = Append(@, Tx("r", 1, DeviceByte(d, lines), count)),
                      !.ret = DeviceByte(d, lines)]
  ELSE [d EXCEPT !.error = PCF8574_I2C_ERROR, !.ret = d.dataIn]

\* read8() that stores what it got even when the request failed
read8_StoresOnFailure(d, count, lines) ==
  IF InterfaceAvailable
  THEN IF count # 1
       THEN [d EXCEPT !.error = PCF8574_I2C_ERROR,
                      !.dataIn = 0,
                      !.bus = Append(@, Tx("r", 1, NoByte, count)),
                      !.ret = 0]
       ELSE [d EXCEPT !.dataIn = DeviceByte(d, lines),
                      !.bus = Append(@, Tx("r", 1, DeviceByte(d, lines), count)),
                      !.ret = DeviceByte(d, lines)]
  ELSE [d EXCEPT !.error = PCF8574_I2C_ERROR, !.ret = d.dataIn]

\* PCF8574::read8()
read8(d, count, lines) ==
  IF InterfaceAvailable
  THEN IF count # 1
       THEN [d EXCEPT !.error = PCF8574_I2C_ERROR,
                      !.bus = Append(@, Tx("r", 1, NoByte, count)),
                      !.ret = d.dataIn]
       ELSE [d EXCEPT !.dataIn = DeviceByte(d, lines),
                      !.bus = Append(@, Tx("r", 1, DeviceByte(d, lines), count)),
                      !.ret = DeviceByte(d, lines)]
  ELSE [d EXCEPT !.error = PCF8574_I2C_ERROR, !.ret = d.dataIn]

\* write8() that keeps the old shadow when the transaction fails
write8_RollsBack(d, value, status) ==
  IF InterfaceAvailable
  THEN [d EXCEPT !.dataOut = IF status = 0 THEN value ELSE @,
                 !.error = status,
                 !.latch = IF status = 0 THEN value ELSE @,
                 !.bus = Append(@, Tx("w", 1, value, status)),
                 !.ret = Void]
  ELSE [d EXCEPT !.error = PCF8574_INTERFACE_NOT_AVAILABLE, !.ret = Void]

\* PCF8574::write8(value); the chip latches the byte when it acknowledges
write8(d, value, status) ==
  IF InterfaceAvailable
  THEN [d EXCEPT !.dataOut = value,
                 !.error = status,
                 !.latch = IF status = 0 THEN value ELSE @,
                 !.bus = Append(@, Tx("w", 1, value, status)),
                 !.ret = Void]
  ELSE [d EXCEPT !.error = PCF8574_INTERFACE_NOT_AVAILABLE, !.ret = Void]

\* PCF8574::begin(val); Wire.begin() changes nothing the driver or the chip holds
begin(d, val, status) ==
  IF InterfaceAvailable
  THEN write8(d, val, status)
  ELSE [d EXCEPT !.error = PCF8574_INTERFACE_NOT_AVAILABLE, !.ret = Void]

\* PCF8574::read(pin)
read(d, pin, count, lines) ==
  IF pin > 7
  THEN [d EXCEPT !.error = PCF8574_PIN_ERROR, !.ret = 0]
  ELSE LET d1 == read8(d, count, lines)
       IN [d1 EXCEPT !.ret = IF BitAnd(d1.dataIn, PinMask(pin)) > 0 THEN 1 ELSE 0]

\* write() whose range check lets pin 8 through (1 << 8 has no low bits)
write_OffByOne(d, pin, value, status) ==
  IF pin > 8
  THEN [d EXCEPT !.error = PCF8574_PIN_ERROR, !.ret = Void]
  ELSE LET out == IF value = LOW
                  THEN BitAnd(d.dataOut, BitNot(PinMask(pin) % 256))
                  ELSE BitOr(d.dataOut, PinMask(pin) % 256)
       IN write8([d EXCEPT !.dataOut = out], out, status)

\* write() that sets the bit whatever the value
write_IgnoresValue(d, pin, value, status) ==
  IF pin > 7
  THEN [d EXCEPT !.error = PCF8574_PIN_ERROR, !.ret = Void]
  ELSE LET out == BitOr(d.dataOut, PinMask(pin))
       IN write8([d EXCEPT !.dataOut = out], out, status)

\* PCF8574::write(pin, value)
write(d, pin, value, status) ==
  IF pin > 7
  THEN [d EXCEPT !.error = PCF8574_PIN_ERROR, !.ret = Void]
  ELSE LET out == IF value = LOW
                  THEN BitAnd(d.dataOut, BitNot(PinMask(pin)))
                  ELSE BitOr(d.dataOut, PinMask(pin))
       IN write8([d EXCEPT !.dataOut = out], out, status)

\* toggleMask() that sets the masked bits instead of inverting them
toggleMask_SetsBits(d, mask, status) ==
  LET out == BitOr(d.dataOut, mask)
  IN write8([d EXCEPT !.dataOut = out], out, status)

\* PCF8574::toggleMask(mask)
toggleMask(d, mask, status) ==
  LET out == BitXor(d.dataOut, mask)
  IN write8([d EXCEPT !.dataOut = out], out, status)

\* PCF8574::toggle(pin)
toggle(d, pin, status) ==
  IF pin > 7
  THEN [d EXCEPT !.error = PCF8574_PIN_ERROR, !.ret = Void]
  ELSE toggleMask(d, PinMask(pin), status)

\* x >> n and (uint8_t)(x << n) of a byte x
ShiftRight8(x, n) == x \div Pow2(n)
ShiftLeft8(x, n) == (x * Pow2(n)) % 256

\* shiftRight() that clears the shadow for n > 7 and returns without writing
shiftRight_ClearsWithoutWrite(d, n, status) ==
  IF n = 0 \/ d.dataOut = 0
  THEN [d EXCEPT !.ret = Void]
  ELSE IF n > 7
       THEN [d EXCEPT !.dataOut = 0, !.ret = Void]
       ELSE LET out == ShiftRight8(d.dataOut, n)
            IN write8([d EXCEPT !.dataOut = out], out, status)

\* PCF8574::shiftRight(n)
shiftRight(d, n, status) ==
  IF n = 0 \/ d.dataOut = 0
  THEN [d EXCEPT !.ret = Void]
  ELSE LET cleared == IF n > 7 THEN 0 ELSE d.dataOut
           out == IF cleared # 0 THEN ShiftRight8(cleared, n) ELSE cleared
       IN write8([d EXCEPT !.dataOut = out], out, status)

\* shiftLeft() without the n > 7 test, on a target that takes the shift
\* count modulo 8
shiftLeft_NoClear(d, n, status) ==
  IF n = 0 \/ d.dataOut = 0
  THEN [d EXCEPT !.ret = Void]
  ELSE LET out == ShiftLeft8(d.dataOut, n % 8)
       IN write8([d EXCEPT !.dataOut = out], out, status)

\* PCF8574::shiftLeft(n)
shiftLeft(d, n, status) ==
  IF n = 0 \/ d.dataOut = 0
  THEN [d EXCEPT !.ret = Void]
  ELSE LET cleared == IF n > 7 THEN 0 ELSE d.dataOut
           out == IF cleared # 0 THEN ShiftLeft8(cleared, n) ELSE cleared
       IN write8([d EXCEPT !.dataOut = out], out, status)

\* rotateRight() that loses the bits shifted out
rotateRight_NoWrap(d, n, status) ==
  IF n % 8 = 0
  THEN [d EXCEPT !.ret = Void]
  ELSE LET r == BitAnd(n, 7)
           out == ShiftRight8(d.dataOut, r)
       IN write8([d EXCEPT !.dataOut = out], out, status)

\* rotateRight() without the test for an identity rotation
rotateRight_AlwaysWrites(d, n, status) ==
  LET r == BitAnd(n, 7)
      out == BitOr(ShiftRight8(d.dataOut, r), ShiftLeft8(d.dataOut, 8 - r))
  IN write8([d EXCEPT !.dataOut = out], out, status)

\* PCF8574::rotateRight(n)
rotateRight(d, n, status) ==
  IF n % 8 = 0
  THEN [d EXCEPT !.ret = Void]
  ELSE LET r == BitAnd(n, 7)
           out == BitOr(ShiftRight8(d.dataOut, r), ShiftLeft8(d.dataOut, 8 - r))
       IN write8([d EXCEPT !.dataOut = out], out, status)

\* rotateLeft() that rotates right
rotateLeft_SameDirection(d, n, status) == rotateRight(d, BitAnd(n, 7), status)

\* PCF8574::rotateLeft(n): the argument 8 - (n & 7) is passed as a uint8_t
rotateLeft(d, n, status) == rotateRight(d, (8 - BitAnd(n, 7)) % 256, status)

\* reverse() without its last step, the swap of the two nibbles
reverse_SkipsNibbleSwap(d, status) ==
  LET x0 == d.dataOut
      x1 == BitOr(ShiftRight8(BitAnd(x0, 170), 1), ShiftLeft8(BitAnd(x0, 85), 1))
      x2 == BitOr(ShiftRight8(BitAnd(x1, 204), 2), ShiftLeft8(BitAnd(x1, 51), 2))
  IN write8(d, x2, status)

\* reverse() whose last step forgets the low nibble moving up
reverse_DropsLowNibble(d, status) ==
  LET x0 == d.dataOut
      x1 == BitOr(ShiftRight8(BitAnd(x0, 170), 1), ShiftLeft8(BitAnd(x0, 85), 1))
      x2 == BitOr(ShiftRight8(BitAnd(x1, 204), 2), ShiftLeft8(BitAnd(x1, 51), 2))
      x3 == ShiftRight8(x2, 4)
  IN write8(d, x3, status)

\* PCF8574::reverse()
reverse(d, status) ==
  LET x0 == d.dataOut
      x1 == BitOr(ShiftRight8(BitAnd(x0, 170), 1), ShiftLeft8(BitAnd(x0, 85), 1))
      x2 == BitOr(ShiftRight8(BitAnd(x1, 204), 2), ShiftLeft8(BitAnd(x1, 51), 2))
      x3 == BitOr(ShiftRight8(x2, 4), ShiftLeft8(x2, 4))
  IN write8(d, x3, status)

\* lastError() that reports the error without resetting it
lastError_KeepsError(d) == [d EXCEPT !.ret = d.error]

\* PCF8574::lastError()
lastError(d) == [d EXCEPT !.error = PCF8574_OK, !.ret = d.error]

\* readButton8() that returns early, without restoring, when the read failed
readButton8_NoRestoreOnFailure(d, mask, s1, count, lines, s2) ==
  LET temp == d.dataOut
      d1 == write8(d, BitOr(mask, d.dataOut), s1)
      d2 == read8(d1, count, lines)
      d3 == IF count # 1 THEN d2 ELSE write8(d2, temp, s2)
  IN [d3 EXCEPT !.ret = d3.dataIn]

\* PCF8574::readButton8(mask)
readButton8(d, mask, s1, count, lines, s2) ==
  LET temp == d.dataOut
      d1 == write8(d, BitOr(mask, d.dataOut), s1)
      d2 == read8(d1, count, lines)
      d3 == write8(d2, temp, s2)
  IN [d3 EXCEPT !.ret = d3.dataIn]

\* PCF8574::readButton(pin)
readButton(d, pin, s1, count, lines, s2) ==
  IF pin > 7
  THEN [d EXCEPT !.error = PCF8574_PIN_ERROR, !.ret = 0]
  ELSE LET temp == d.dataOut
           d1 == write(d, pin, HIGH, s1)
           d2 == read(d1, pin, count, lines)
           rtn == d2.ret
           d3 == write8(d2, temp, s2)
       IN [d3 EXCEPT !.ret = rtn]

(***************************************************************************)
(* Calls and their records.                                                *)
(***************************************************************************)
CallRec(op, a, b, ret) == [op |-> op, a |-> a, b |-> b, ret |-> ret]

\* the most recent public call
call == history[Len(history)]

\* the driver state a call starts from
Cur ==
  [dataOut |-> _dataOut, dataIn |-> _dataIn, error |-> _error,
   latch |-> latch, bus |-> <<>>, ret |-> Void]

\* the fields, the latch and the bus log are those of d
Holds(d) ==
  /\ _dataOut = d.dataOut
  /\ _dataIn = d.dataIn
  /\ _error = d.error
  /\ latch = d.latch
  /\ bus = d.bus

\* no caller is inside a call
Idle == [c \in {1, 2} |-> "idle"]

(***************************************************************************)
(* Init: the driver has been constructed with any bus selector index, on a *)
(* bus with or without a chip, and is either fresh from the constructor or *)
(* has been prepared by begin(val), or by toggleMask(m) possibly followed  *)
(* by read8().                                                             *)
(***************************************************************************)

Init ==
  /\ _interfaceIndex \in 0..MaxInterfaceIndex
  /\ devicePresent \in BOOLEAN
  /\ _buttonMask \in ButtonMasks
  /\ phase = 0
  /\ pc = Idle
  /\ temp1 = 0
  /\ atomic = TRUE
  /\ writeFailed = FALSE
  /\ \E latch0 \in PowerOnLatch :
       LET c == Constructed(latch0)
           made == CallRec("PCF8574", _interfaceIndex, 0, Void)
       IN \/ Holds(c) /\ history = <<made>>
          \/ \E val \in ByteArgs, st \in Statuses :
               /\ Holds(begin(c, val, st))
               /\ history = <<made, CallRec("begin", val, 0, Void)>>
          \/ \E m \in ByteArgs, st \in Statuses :
               LET d1 == toggleMask(c, m, st)
                   h1 == <<made, CallRec("toggleMask", m, 0, Void)>>
               IN \/ Holds(d1) /\ history = h1
                  \/ \E count \in Counts, lines \in LineLevels :
                       LET d2 == read8([d1 EXCEPT !.bus = <<>>], count, lines)
                       IN Holds(d2) /\ history = Append(h1, CallRec("read8", 0, 0, d2.ret))

\* the caller calls one member function on the driver as Init left it ...
Acting == phase = 0
\* ... and then looks at the result
Observing == phase \in 1..MaxObservations

\* a public call returns: the fields, the latch and the bus log become those
\* of d
Return(d, op, a, b) ==
  /\ _dataOut' = d.dataOut
  /\ _dataIn' = d.dataIn
  /\ _error' = d.error
  /\ latch' = d.latch
  /\ bus' = d.bus
  /\ history' = Append(history, CallRec(op, a, b, d.ret))
  /\ phase' = phase + 1
  /\ UNCHANGED <<_interfaceIndex, _buttonMask, devicePresent>>
  /\ UNCHANGED <<pc, temp1, atomic, writeFailed>>

Begin ==
  /\ Acting
  /\ \E val \in ByteArgs, status \in Statuses :
       Return(begin(Cur, val, status), "begin", val, 0)

Read8 ==
  /\ Acting
  /\ \E count \in Counts, lines \in LineLevels :
       Return(read8(Cur, count, lines), "read8", 0, 0)

Write8 ==
  /\ Acting
  /\ \E value \in ByteArgs, status \in Statuses :
       Return(write8(Cur, value, status), "write8", value, 0)

\* read(pin): any pin as the call looked at, or the pin just written
Read ==
  \E pin \in Pins, count \in Counts, lines \in LineLevels :
    /\ \/ Acting
       \/ Observing /\ call.op = "write" /\ call.a = pin
    /\ Return(read(Cur, pin, count, lines), "read", pin, 0)

Write ==
  /\ Acting
  /\ \E pin \in Pins, value \in PinValues, status \in Statuses :
       Return(write(Cur, pin, value, status), "write", pin, value)

Toggle ==
  /\ Acting
  /\ \E pin \in Pins, status \in Statuses :
       Return(toggle(Cur, pin, status), "toggle", pin, 0)

ToggleMask ==
  /\ Acting
  /\ \E mask \in ByteArgs, status \in Statuses :
       Return(toggleMask(Cur, mask, status), "toggleMask", mask, 0)

LastError ==
  /\ Acting \/ Observing
  /\ Return(lastError(Cur), "lastError", 0, 0)

ReadButton8Mask ==
  /\ Acting
  /\ \E mask \in ByteArgs, s1 \in Statuses, count \in Counts,
        lines \in LineLevels, s2 \in Statuses :
       Return(readButton8(Cur, mask, s1, count, lines, s2), "readButton8", mask, 0)

\* readButton8() of the header: readButton8(_buttonMask)
ReadButton8 ==
  /\ Acting
  /\ \E s1 \in Statuses, count \in Counts, lines \in LineLevels, s2 \in Statuses :
       Return(readButton8(Cur, _buttonMask, s1, count, lines, s2),
              "readButton8()", _buttonMask, 0)

ReadButton ==
  /\ Acting
  /\ \E pin \in Pins, s1 \in Statuses, count \in Counts,
        lines \in LineLevels, s2 \in Statuses :
       Return(readButton(Cur, pin, s1, count, lines, s2), "readButton", pin, 0)

\* setButtonMask(mask) of the header
SetButtonMask ==
  /\ Acting
  /\ \E mask \in ByteArgs :
       /\ _buttonMask' = mask
       /\ bus' = <<>>
       /\ history' = Append(history, CallRec("setButtonMask", mask, 0, Void))
       /\ phase' = phase + 1
       /\ UNCHANGED <<_interfaceIndex, _dataOut, _dataIn, _error, devicePresent, latch>>
       /\ UNCHANGED <<pc, temp1, atomic, writeFailed>>

Next ==
  \/ Begin
  \/ Read8
  \/ Write8
  \/ Read
  \/ Write
  \/ Toggle
  \/ ToggleMask
  \/ LastError
  \/ ReadButton8Mask
  \/ ReadButton8
  \/ ReadButton
  \/ SetButtonMask

Spec == Init /\ [][Next]_vars

(***************************************************************************)
(* SpecShadow: the shift, rotate, reverse and toggle calls on any shadow.  *)
(* The driver has been constructed, toggleMask(m) has left the shadow at   *)
(* any of the 256 bytes and the caller has read it with valueOut(); then   *)
(* one of these functions is called, and rotateLeft, reverse, toggleMask   *)
(* and toggle are also called right after rotateRight, reverse, toggleMask *)
(* and toggle with the same argument.                                      *)
(***************************************************************************)
AllBytes == 0..255
ShiftCounts == (0..MaxShift) \cup {255}

InitShadow ==
  /\ _interfaceIndex \in 0..MaxInterfaceIndex
  /\ devicePresent \in BOOLEAN
  /\ _buttonMask = 255
  /\ phase = 0
  /\ pc = Idle
  /\ temp1 = 0
  /\ atomic = TRUE
  /\ writeFailed = FALSE
  /\ \E m \in AllBytes, st \in Statuses :
       LET d == toggleMask(Constructed(255), m, st)
       IN /\ Holds(d)
          /\ history = << CallRec("PCF8574", _interfaceIndex, 0, Void),
                          CallRec("toggleMask", m, 0, Void),
                          CallRec("valueOut", 0, 0, d.dataOut) >>

\* the second of two calls in a row
Repeating == phase = 1

ShiftRight ==
  /\ Acting
  /\ \E n \in ShiftCounts, status \in Statuses :
       Return(shiftRight(Cur, n, status), "shiftRight", n, 0)

ShiftLeft ==
  /\ Acting
  /\ \E n \in ShiftCounts, status \in Statuses :
       Return(shiftLeft(Cur, n, status), "shiftLeft", n, 0)

RotateRight ==
  /\ Acting
  /\ \E n \in ShiftCounts, status \in Statuses :
       Return(rotateRight(Cur, n, status), "rotateRight", n, 0)

\* rotateLeft(n): any n, or the n of the rotateRight(n) just made
RotateLeft ==
  \E n \in ShiftCounts, status \in Statuses :
    /\ \/ Acting
       \/ Repeating /\ call.op = "rotateRight" /\ call.a = n
    /\ Return(rotateLeft(Cur, n, status), "rotateLeft", n, 0)

\* reverse(), also right after reverse()
Reverse ==
  /\ \/ Acting
     \/ Repeating /\ call.op = "reverse"
  /\ \E status \in Statuses :
       Return(reverse(Cur, status), "reverse", 0, 0)

\* toggleMask(mask) right after toggleMask(mask)
ToggleMaskAgain ==
  /\ Repeating
  /\ call.op = "toggleMask"
  /\ \E status \in Statuses :
       Return(toggleMask(Cur, call.a, status), "toggleMask", call.a, 0)

\* toggle(pin) right after toggle(pin)
ToggleAgain ==
  /\ Repeating
  /\ call.op = "toggle"
  /\ \E status \in Statuses :
       Return(toggle(Cur, call.a, status), "toggle", call.a, 0)

NextShadow ==
  \/ ShiftRight
  \/ ShiftLeft
  \/ RotateRight
  \/ RotateLeft
  \/ Reverse
  \/ ToggleMask
  \/ Toggle
  \/ ToggleMaskAgain
  \/ ToggleAgain

SpecShadow == InitShadow /\ [][NextShadow]_vars

(***************************************************************************)
(* SpecCallers: two callers use one driver object after begin(val).        *)
(* Caller 1 calls readButton8() and caller 2 calls write8(value).  When    *)
(* atomic, a caller holds a lock on the object for the whole of its call,  *)
(* so readButton8() is one step; otherwise caller 2 can run between any    *)
(* two statements of caller 1's readButton8.  bus lists the transactions   *)
(* of both calls in the order they were issued.                            *)
(***************************************************************************)
InitCallers ==
  /\ _interfaceIndex \in 0..MaxInterfaceIndex
  /\ devicePresent \in BOOLEAN
  /\ _buttonMask \in ButtonMasks
  /\ atomic \in BOOLEAN
  /\ phase = 0
  /\ pc = Idle
  /\ temp1 = 0
  /\ writeFailed = FALSE
  /\ \E latch0 \in PowerOnLatch, val \in ByteArgs, st \in Statuses :
       LET d == begin(Constructed(latch0), val, st)
       IN /\ Holds([d EXCEPT !.bus = <<>>])
          /\ history = << CallRec("PCF8574", _interfaceIndex, 0, Void),
                          CallRec("begin", val, 0, Void) >>

\* the driver state a statement of a call works on: the transactions of both
\* callers are kept
CurBus == [Cur EXCEPT !.bus = bus]

\* a statement of caller c has run and left d; the caller is now at position
\* at
Stepped(d, c, at) ==
  /\ _dataOut' = d.dataOut
  /\ _dataIn' = d.dataIn
  /\ _error' = d.error
  /\ latch' = d.latch
  /\ bus' = d.bus
  /\ pc' = [pc EXCEPT ![c] = at]
  /\ UNCHANGED <<_interfaceIndex, _buttonMask, devicePresent, atomic, phase, writeFailed>>

\* caller 1, holding the lock: readButton8() from call to return
Caller1ReadButton8 ==
  /\ atomic
  /\ pc[1] = "idle"
  /\ \E s1 \in Statuses, count \in Counts, lines \in LineLevels, s2 \in Statuses :
       LET d == readButton8(CurBus, _buttonMask, s1, count, lines, s2)
       IN /\ Stepped(d, 1, "done")
          /\ temp1' = _dataOut
          /\ history' = Append(history, CallRec("readButton8()", _buttonMask, 0, d.ret))

\* caller 1, no lock: uint8_t temp = _dataOut;
Caller1Save ==
  /\ ~atomic
  /\ pc[1] = "idle"
  /\ temp1' = _dataOut
  /\ pc' = [pc EXCEPT ![1] = "force"]
  /\ UNCHANGED <<_interfaceIndex, _dataOut, _dataIn, _buttonMask, _error,
                 devicePresent, latch, bus, history, phase, atomic, writeFailed>>

\* caller 1: write8(mask | _dataOut);
Caller1Force ==
  /\ pc[1] = "force"
  /\ \E s1 \in Statuses :
       Stepped(write8(CurBus, BitOr(_buttonMask, _dataOut), s1), 1, "read")
  /\ UNCHANGED <<temp1, history>>

\* caller 1: read8();
Caller1Read ==
  /\ pc[1] = "read"
  /\ \E count \in Counts, lines \in LineLevels :
       Stepped(read8(CurBus, count, lines), 1, "restore")
  /\ UNCHANGED <<temp1, history>>

\* caller 1: write8(temp); return _dataIn;
Caller1Restore ==
  /\ pc[1] = "restore"
  /\ \E s2 \in Statuses :
       LET d == write8(CurBus, temp1, s2)
       IN /\ Stepped(d, 1, "done")
          /\ history' = Append(history, CallRec("readButton8()", _buttonMask, 0, d.dataIn))
  /\ UNCHANGED temp1

\* caller 2: write8(value), whenever caller 1 does not hold the lock
Caller2Write8 ==
  /\ pc[2] = "idle"
  /\ atomic => pc[1] \in {"idle", "done"}
  /\ \E value \in ByteArgs, status \in Statuses :
       /\ Stepped(write8(CurBus, value, status), 2, "done")
       /\ history' = Append(history, CallRec("write8", value, 0, Void))
  /\ UNCHANGED temp1

NextCallers ==
  \/ Caller1ReadButton8
  \/ Caller1Save
  \/ Caller1Force
  \/ Caller1Read
  \/ Caller1Restore
  \/ Caller2Write8

SpecCallers == InitCallers /\ [][NextCallers]_vars

(***************************************************************************)
(* SpecSeq: sequences of calls after begin(val) has written val to the     *)
(* chip.  Up to MaxCalls calls follow, each any of the                     *)
(* functions that write or read the chip, with any outcome of its bus      *)
(* transactions; writeFailed records that one of its bus writes was not    *)
(* acknowledged, and the sequence is followed no further then.  The caller *)
(* does not look at the calls or at the bus: history and bus stay as       *)
(* begin() left them.                                                      *)
(***************************************************************************)
SeqPins == {0, 7, MaxPin}
SeqCounts == {0, 1, MaxShift}

WriteFailedIn(transactions) ==
  \E i \in 1..Len(transactions) :
    transactions[i].kind = "w" /\ transactions[i].res # 0

InitSeq ==
  /\ _interfaceIndex \in 0..MaxInterfaceIndex
  /\ devicePresent \in BOOLEAN
  /\ _buttonMask = 255
  /\ phase = 0
  /\ pc = Idle
  /\ temp1 = 0
  /\ atomic = TRUE
  /\ writeFailed = FALSE
  /\ \E val \in ByteArgs, st \in Statuses :
       LET d == begin(Constructed(255), val, st)
       IN /\ Len(d.bus) = 1
          /\ ~WriteFailedIn(d.bus)
          /\ Holds(d)
          /\ history = << CallRec("PCF8574", _interfaceIndex, 0, Void),
                          CallRec("begin", val, 0, Void) >>

InSequence == phase < MaxCalls /\ ~writeFailed

\* a call of the sequence returns and leaves d
Called(d) ==
  /\ InSequence
  /\ _dataOut' = d.dataOut
  /\ _dataIn' = d.dataIn
  /\ _error' = d.error
  /\ latch' = d.latch
  /\ writeFailed' = WriteFailedIn(d.bus)
  /\ phase' = phase + 1
  /\ UNCHANGED <<_interfaceIndex, _buttonMask, devicePresent, bus, history,
                 pc, temp1, atomic>>

SeqWrite8 ==
  \E value \in ByteArgs, status \in Statuses :
    Called(write8(Cur, value, status))

SeqWrite ==
  \E pin \in SeqPins, value \in {LOW, HIGH}, status \in Statuses :
    Called(write(Cur, pin, value, status))

SeqToggle ==
  \E pin \in SeqPins, status \in Statuses :
    Called(toggle(Cur, pin, status))

SeqToggleMask ==
  \E mask \in ButtonMasks, status \in Statuses :
    Called(toggleMask(Cur, mask, status))

SeqShiftRight ==
  \E n \in SeqCounts, status \in Statuses :
    Called(shiftRight(Cur, n, status))

SeqShiftLeft ==
  \E n \in SeqCounts, status \in Statuses :
    Called(shiftLeft(Cur, n, status))

SeqRotateRight ==
  \E n \in SeqCounts, status \in Statuses :
    Called(rotateRight(Cur, n, status))

SeqRotateLeft ==
  \E n \in SeqCounts, status \in Statuses :
    Called(rotateLeft(Cur, n, status))

SeqReverse ==
  \E status \in Statuses :
    Called(reverse(Cur, status))

SeqRead8 ==
  \E count \in Counts, lines \in LineLevels :
    Called(read8(Cur, count, lines))

SeqRead ==
  \E pin \in SeqPins, count \in Counts, lines \in LineLevels :
    Called(read(Cur, pin, count, lines))

SeqReadButton8 ==
  \E mask \in ButtonMasks, s1 \in Statuses, count \in Counts,
     lines \in LineLevels, s2 \in Statuses :
    Called(readButton8(Cur, mask, s1, count, lines, s2))

SeqReadButton ==
  \E pin \in SeqPins, s1 \in Statuses, count \in Counts,
     lines \in LineLevels, s2 \in Statuses :
    Called(readButton(Cur, pin, s1, count, lines, s2))

NextSeq ==
  \/ SeqWrite8
  \/ SeqWrite
  \/ SeqToggle
  \/ SeqToggleMask
  \/ SeqShiftRight
  \/ SeqShiftLeft
  \/ SeqRotateRight
  \/ SeqRotateLeft
  \/ SeqReverse
  \/ SeqRead8
  \/ SeqRead
  \/ SeqReadButton8
  \/ SeqReadButton

SpecSeq == InitSeq /\ [][NextSeq]_vars

(***************************************************************************)
(* Properties.                                                             *)
(***************************************************************************)

\* C1 as stated: after write8(v), in every configuration of the driver,
\* valueOut() = v and the stored error is the status the transport returned
\* for the one write transaction.
C1_Write8InEveryConfiguration ==
  call.op = "write8" =>
    /\ _dataOut = call.a
    /\ Len(bus) = 1
    /\ bus[1].kind = "w"
    /\ _error = bus[1].res

\* C1 amended: with a valid bus selector index, write8(v) sends one write of v,
\* leaves valueOut() = v whatever the status, and stores that status as the
\* error; with an index out of range it sends nothing, leaves the shadow alone
\* and sets the error to "interface not available".
C1_Write8 ==
  [][call'.op = "write8" =>
       IF InterfaceAvailable
       THEN /\ _dataOut' = call'.a
            /\ Len(bus') = 1
            /\ bus'[1].kind = "w"
            /\ bus'[1].byte = call'.a
            /\ _error' = bus'[1].res
       ELSE /\ _dataOut' = _dataOut
            /\ bus' = <<>>
            /\ _error' = PCF8574_INTERFACE_NOT_AVAILABLE]_vars

\* a write8(165) whose transaction failed with status 2: the shadow holds 165
C1_Witness ==
  /\ call.op = "write8"
  /\ call.a = 165
  /\ Len(bus) = 1
  /\ bus[1].res = 2
  /\ _error = 2
  /\ _dataOut = 165
  /\ latch # 165

C3_LastErrorOneShot ==
  [][/\ call'.op = "lastError" =>
          /\ call'.ret = _error
          /\ _error' = PCF8574_OK
     /\ \A i \in 1..Len(history') :
          (history'[i].op = "read" /\ history'[i].a > 7) =>
            /\ history'[i].ret = 0
            /\ (i + 1 <= Len(history') /\ history'[i + 1].op = "lastError") =>
                 /\ history'[i + 1].ret = PCF8574_PIN_ERROR
                 /\ (i + 2 <= Len(history') /\ history'[i + 2].op = "lastError") =>
                      history'[i + 2].ret = PCF8574_OK]_vars

\* read(8), lastError() and lastError() have been called in a row
C3_Witness ==
  /\ phase = 3
  /\ history[Len(history) - 2].op = "read"
  /\ history[Len(history) - 2].a > 7
  /\ history[Len(history) - 2].ret = 0
  /\ history[Len(history) - 1].op = "lastError"
  /\ history[Len(history) - 1].ret = PCF8574_PIN_ERROR
  /\ call.op = "lastError"
  /\ call.ret = PCF8574_OK

\* C4: the error is sticky: once set, it stays non-OK through every later
\* call until lastError() is called; in particular, when the bus read inside
\* readButton8(mask), readButton8() or readButton(pin) fails, the error is
\* non-OK when the call returns, even though the restoring write succeeded.
C4_ErrorSticky ==
  [][/\ (_error # PCF8574_OK /\ call'.op # "lastError") => _error' # PCF8574_OK
     /\ ( /\ call'.op \in {"readButton8", "readButton8()", "readButton"}
          /\ Len(bus') = 3
          /\ bus'[2].res # 1 ) => _error' # PCF8574_OK]_vars

\* C5 as stated: for every pin in 0..7, write(pin, v) issues no bus read and
\* exactly one bus write, of the prior shadow with bit pin set (v # 0) or
\* cleared (v = 0); valueOut() is that byte afterwards; on a loopback bus a
\* following read(pin) returns 1 for v # 0 and 0 for v = 0.
PinWritten(s, pin, v) == s - Bit(s, pin) * Pow2(pin) + (IF v # 0 THEN Pow2(pin) ELSE 0)

LoopbackReadOfWrittenPin ==
  /\ call.op = "write"
  /\ call.a <= 7
  /\ Len(bus) = 1
  /\ bus[1].res = 0
  /\ call'.op = "read"
  /\ call'.a = call.a
  /\ Len(bus') = 1
  /\ bus'[1].res = 1
  /\ bus'[1].byte = latch

C5_WriteInEveryConfiguration ==
  [][/\ (call'.op = "write" /\ call'.a <= 7) =>
          /\ Len(bus') = 1
          /\ bus'[1].kind = "w"
          /\ bus'[1].byte = PinWritten(_dataOut, call'.a, call'.b)
          /\ _dataOut' = PinWritten(_dataOut, call'.a, call'.b)
     /\ LoopbackReadOfWrittenPin =>
          call'.ret = IF call.b # 0 THEN 1 ELSE 0]_vars

\* C5 amended: the one bus write is issued when the bus selector index is
\* valid; with an index out of range no bus transaction is issued.  In both
\* cases valueOut() is the prior shadow with bit pin set or cleared and the
\* other seven bits are those of the prior shadow.
C5_Write ==
  [][/\ (call'.op = "write" /\ call'.a <= 7) =>
          /\ IF InterfaceAvailable
             THEN /\ Len(bus') = 1
                  /\ bus'[1].kind = "w"
                  /\ bus'[1].byte = PinWritten(_dataOut, call'.a, call'.b)
             ELSE bus' = <<>>
          /\ _dataOut' = PinWritten(_dataOut, call'.a, call'.b)
          /\ Bit(_dataOut', call'.a) = IF call'.b # 0 THEN 1 ELSE 0
          /\ \A i \in 0..7 : i # call'.a => Bit(_dataOut', i) = Bit(_dataOut, i)
     /\ LoopbackReadOfWrittenPin =>
          call'.ret = IF call.b # 0 THEN 1 ELSE 0]_vars

\* write(7, LOW) on a shadow with bit 7 set was acknowledged, and the read(7)
\* that followed read the chip's latch back and returned 0
C5_Witness ==
  /\ phase = 2
  /\ history[Len(history) - 1].op = "write"
  /\ history[Len(history) - 1].a = 7
  /\ history[Len(history) - 1].b = LOW
  /\ call.op = "read"
  /\ call.a = 7
  /\ call.ret = 0
  /\ Len(bus) = 1
  /\ bus[1].res = 1
  /\ bus[1].byte = latch
  /\ latch = _dataOut
  /\ _dataOut = 127

\* C6: for every pin > 7, read(pin), write(pin, v), toggle(pin) and
\* readButton(pin) set the error to the pin error, issue no bus transaction,
\* leave the output shadow and the input cache unchanged and (read,
\* readButton) return 0.
C6_PinOutOfRange ==
  [][(call'.op \in {"read", "write", "toggle", "readButton"} /\ call'.a > 7) =>
       /\ _error' = PCF8574_PIN_ERROR
       /\ bus' = <<>>
       /\ _dataOut' = _dataOut
       /\ _dataIn' = _dataIn
       /\ latch' = latch
       /\ call'.op \in {"read", "readButton"} => call'.ret = 0]_vars

\* write(8, v) was called on a driver holding a shadow and an input cache that
\* are not the constructor's: nothing but the error changed
C6_Witness ==
  /\ call.op = "write"
  /\ call.a > 7
  /\ _error = PCF8574_PIN_ERROR
  /\ bus = <<>>
  /\ _dataOut = 90
  /\ _dataIn # 0

\* C7: valueOut() after readButton8(mask), readButton8() and readButton(pin),
\* pin in 0..7, is the shadow the call started with, whatever the outcome of
\* its bus transactions and whatever was read.
C7_ShadowRestored ==
  [][( \/ call'.op \in {"readButton8", "readButton8()"}
       \/ call'.op = "readButton" /\ call'.a <= 7 ) =>
       _dataOut' = _dataOut]_vars

\* C8 as stated: readButton8(mask) issues exactly three bus transactions: a
\* write of mask | s, a one-byte read, a write of s, the last one even when an
\* earlier one failed, and returns the byte delivered by the read.
C8_ThreeTransactionsAlways ==
  [][call'.op = "readButton8" =>
       /\ Len(bus') = 3
       /\ bus'[1].kind = "w"
       /\ \A i \in 0..7 :
            Bit(bus'[1].byte, i) =
              IF Bit(call'.a, i) = 1 THEN 1 ELSE Bit(_dataOut, i)
       /\ bus'[2].kind = "r"
       /\ bus'[2].n = 1
       /\ bus'[3].kind = "w"
       /\ bus'[3].byte = _dataOut
       /\ bus'[2].res = 1 => call'.ret = bus'[2].byte]_vars

\* C8 amended: with a valid bus selector index the three transactions are
\* issued in that order whatever their outcomes, and the call returns the byte
\* the read delivered or, when the read did not deliver one byte, the byte
\* cached before; with an index out of range no transaction is issued.
C8_ReadButton8 ==
  [][call'.op = "readButton8" =>
       IF InterfaceAvailable
       THEN /\ Len(bus') = 3
            /\ bus'[1].kind = "w"
            /\ \A i \in 0..7 :
                 Bit(bus'[1].byte, i) =
                   IF Bit(call'.a, i) = 1 THEN 1 ELSE Bit(_dataOut, i)
            /\ bus'[2].kind = "r"
            /\ bus'[2].n = 1
            /\ bus'[3].kind = "w"
            /\ bus'[3].byte = _dataOut
            /\ call'.ret = IF bus'[2].res = 1 THEN bus'[2].byte ELSE _dataIn
       ELSE /\ bus' = <<>>
            /\ call'.ret = _dataIn]_vars

\* readButton8(15) on shadow 90: the write of 95 and the read both failed,
\* and the write of 90 was still issued (and acknowledged)
C8_Witness ==
  /\ call.op = "readButton8"
  /\ call.a = 15
  /\ Len(bus) = 3
  /\ bus[1].byte = 95
  /\ bus[1].res # 0
  /\ bus[2].res # 1
  /\ bus[3].byte = 90
  /\ bus[3].res = 0
  /\ _dataOut = 90

\* C9: begin(v) probes the chip and returns the result of the probe: with no
\* chip answering it returns false and attempts no bus write; with a chip
\* answering it returns true after writing v, so that valueOut() and the
\* chip's latch are v.
C9_BeginProbes ==
  (call.op = "begin" /\ InterfaceAvailable) =>
    IF devicePresent
    THEN /\ call.ret = 1
         /\ _dataOut = call.a
         /\ (bus # <<>> /\ bus[Len(bus)].res = 0) => latch = call.a
    ELSE /\ call.ret = 0
         /\ \A i \in 1..Len(bus) : bus[i].kind # "w"

\* C10: a driver constructed with a bus selector index out of range has the
\* error "interface not available" right after construction, no call issues a
\* bus transaction, and each call that would touch the bus leaves the error at
\* "interface not available".
TouchesBus(c) ==
  \/ c.op \in {"begin", "read8", "write8", "toggleMask", "readButton8", "readButton8()"}
  \/ c.op \in {"read", "write", "toggle", "readButton"} /\ c.a <= 7

C10_InterfaceNotAvailable ==
  ~InterfaceAvailable =>
    /\ bus = <<>>
    /\ Len(history) = 1 => _error = PCF8574_INTERFACE_NOT_AVAILABLE
    /\ TouchesBus(call) => _error = PCF8574_INTERFACE_NOT_AVAILABLE

\* C12: on a bus where no chip answers, after construction and begin(),
\* read8() and read(pin), pin in 0..7, return 0; lastError() called right
\* after the read returns the I2C error (not the status of begin's write), and
\* lastError() called again right after that returns OK.
ReadCall(c) == c.op = "read8" \/ (c.op = "read" /\ c.a <= 7)

C12_NoDeviceRead ==
  ( /\ ~devicePresent
    /\ Len(history) >= 3
    /\ history[2].op = "begin"
    /\ ReadCall(history[3]) ) =>
      /\ history[3].ret = 0
      /\ (Len(history) >= 4 /\ history[4].op = "lastError") =>
            history[4].ret = PCF8574_I2C_ERROR
      /\ (Len(history) >= 5 /\ history[4].op = "lastError"
                            /\ history[5].op = "lastError") =>
            history[5].ret = PCF8574_OK

\* begin(0) was not acknowledged, read(7) returned 0, and the two calls of
\* lastError() that followed returned the I2C error and then OK
C12_Witness ==
  /\ ~devicePresent
  /\ InterfaceAvailable
  /\ Len(history) = 5
  /\ history[2].op = "begin"
  /\ history[2].a = 0
  /\ history[3].op = "read"
  /\ history[3].a = 7
  /\ history[3].ret = 0
  /\ history[4].op = "lastError"
  /\ history[4].ret = PCF8574_I2C_ERROR
  /\ call.op = "lastError"
  /\ call.ret = PCF8574_OK
  /\ _dataOut = 0

\* the shadow the caller read with valueOut() before the calls it makes, the
\* first of these calls and the second
Watched == Len(history) >= 4 /\ history[3].op = "valueOut"
s0 == history[3].ret
first == history[4]
TwoCalls == Watched /\ Len(history) = 5

\* C14: for every n in 0..7 and every shadow s, rotateRight(n) followed by
\* rotateLeft(n) leaves valueOut() equal to s.
C14_RotateRoundTrip ==
  ( /\ TwoCalls
    /\ first.op = "rotateRight"
    /\ first.a <= 7
    /\ call.op = "rotateLeft"
    /\ call.a = first.a ) => _dataOut = s0

\* rotateRight(3) turned the shadow 165 into 180 on the chip, and rotateLeft(3)
\* turned it back
C14_Witness ==
  /\ TwoCalls
  /\ s0 = 165
  /\ first.op = "rotateRight"
  /\ first.a = 3
  /\ call.op = "rotateLeft"
  /\ call.a = 3
  /\ Len(bus) = 1
  /\ bus[1].byte = 165
  /\ bus[1].res = 0
  /\ latch = 165
  /\ _dataOut = 165

\* C15: for each of the 256 shadows s, reverse() called twice in a row leaves
\* valueOut() equal to s.
C15_ReverseTwice ==
  ( /\ TwoCalls
    /\ first.op = "reverse"
    /\ call.op = "reverse" ) => _dataOut = s0

\* the second reverse() wrote 13, the shadow before the first one, to the chip
C15_Witness ==
  /\ TwoCalls
  /\ s0 = 13
  /\ first.op = "reverse"
  /\ call.op = "reverse"
  /\ Len(bus) = 1
  /\ bus[1].byte = 13
  /\ bus[1].res = 0
  /\ latch = 13
  /\ _dataOut = 13

\* C16: for every shadow s and every n in 0..255, after shiftLeft(n) the
\* shadow is (s * 2^n) mod 256 when n <= 7 and 0 when n >= 8, and after
\* shiftRight(n) it is floor(s / 2^n) when n <= 7 and 0 when n >= 8; so
\* shiftLeft(n) with n >= 8 or with s = 0 leaves the shadow 0.
OneCall == Watched /\ Len(history) = 4

C16_Shift ==
  OneCall =>
    /\ call.op = "shiftLeft" =>
         /\ _dataOut = IF call.a <= 7 THEN (s0 * (2 ^ call.a)) % 256 ELSE 0
         /\ (call.a >= 8 \/ s0 = 0) => _dataOut = 0
    /\ call.op = "shiftRight" =>
         _dataOut = IF call.a <= 7 THEN s0 \div (2 ^ call.a) ELSE 0

\* shiftLeft(3) of the shadow 165 wrote 40 to the chip: the three highest bits
\* were shifted out
C16_Witness ==
  /\ OneCall
  /\ s0 = 165
  /\ call.op = "shiftLeft"
  /\ call.a = 3
  /\ Len(bus) = 1
  /\ bus[1].byte = 40
  /\ _dataOut = 40

\* C17 as stated: for every mask m and every shadow s, toggleMask(m) writes and
\* stores s XOR m, so toggleMask(m) twice in a row (and toggle(pin) twice, pin
\* in 0..7, which is toggleMask(1 << pin)) returns valueOut() to s.
Inverted(byte, s, m) == \A i \in 0..7 : Bit(byte, i) = (Bit(s, i) + Bit(m, i)) % 2

ToggleMaskOf(c) == IF c.op = "toggle" THEN 2 ^ c.a ELSE c.a

Toggling(c) == c.op = "toggleMask" \/ (c.op = "toggle" /\ c.a <= 7)

C17_ToggleWritesInEveryConfiguration ==
  /\ (OneCall /\ Toggling(call)) =>
       /\ Inverted(_dataOut, s0, ToggleMaskOf(call))
       /\ Len(bus) = 1
       /\ bus[1].kind = "w"
       /\ bus[1].byte = _dataOut
  /\ (TwoCalls /\ Toggling(call) /\ first = call) => _dataOut = s0

\* C17 amended: toggleMask(m) stores s XOR m and, when the bus selector index
\* is valid, writes it in one bus write; with an index out of range it issues
\* no bus transaction.  In both cases toggleMask(m) twice in a row, and
\* toggle(pin) twice, return valueOut() to s.
C17_Toggle ==
  /\ (OneCall /\ Toggling(call)) =>
       /\ Inverted(_dataOut, s0, ToggleMaskOf(call))
       /\ IF InterfaceAvailable
          THEN /\ Len(bus) = 1
               /\ bus[1].kind = "w"
               /\ bus[1].byte = _dataOut
          ELSE bus = <<>>
  /\ (TwoCalls /\ Toggling(call) /\ first = call) => _dataOut = s0

\* toggleMask(15) twice on the shadow 165: the second call wrote 165 back
C17_Witness ==
  /\ TwoCalls
  /\ s0 = 165
  /\ first.op = "toggleMask"
  /\ first.a = 15
  /\ call = first
  /\ Len(bus) = 1
  /\ bus[1].byte = 165
  /\ bus[1].res = 0
  /\ latch = 165
  /\ _dataOut = 165

\* C18: for every shadow s and every n in 0..255, rotateRight(n) leaves the
\* shadow s rotated right by n mod 8 positions within 8 bits (the lowest line
\* moves to the highest), and rotateLeft(n) leaves it rotated left by n mod 8
\* positions, which is the result of rotateRight(8 - (n mod 8)).
RotatedRight(byte, s, k) == \A i \in 0..7 : Bit(byte, i) = Bit(s, (i + k) % 8)

C18_Rotate ==
  OneCall =>
    /\ call.op = "rotateRight" => RotatedRight(_dataOut, s0, call.a % 8)
    /\ call.op = "rotateLeft" =>
         /\ \A i \in 0..7 : Bit(_dataOut, (i + (call.a % 8)) % 8) = Bit(s0, i)
         /\ RotatedRight(_dataOut, s0, 8 - (call.a % 8))

\* rotateRight(255) of the shadow 1 turned by 7 positions: bit 0 went to bit 1
C18_Witness ==
  /\ OneCall
  /\ s0 = 1
  /\ call.op = "rotateRight"
  /\ call.a = 255
  /\ Len(bus) = 1
  /\ bus[1].byte = 2
  /\ _dataOut = 2

\* C19 as stated: shiftRight(n) and shiftLeft(n) with n = 0 or with shadow 0,
\* and rotateRight(n) and rotateLeft(n) with n mod 8 = 0, issue no bus
\* transaction and leave the shadow, the input cache and the error unchanged;
\* every other shift or rotate call issues exactly one bus write, which
\* carries the new shadow.
Shifting(c) == c.op \in {"shiftRight", "shiftLeft"}
Rotating(c) == c.op \in {"rotateRight", "rotateLeft"}

IdentityCall(c, s) ==
  \/ Shifting(c) /\ (c.a = 0 \/ s = 0)
  \/ Rotating(c) /\ c.a % 8 = 0

NoTraffic ==
  /\ bus' = <<>>
  /\ _dataOut' = _dataOut
  /\ _dataIn' = _dataIn
  /\ _error' = _error
  /\ latch' = latch

OneWriteOfShadow ==
  /\ Len(bus') = 1
  /\ bus'[1].kind = "w"
  /\ bus'[1].byte = _dataOut'

C19_OneWriteInEveryConfiguration ==
  [][(Shifting(call') \/ Rotating(call')) =>
       IF IdentityCall(call', _dataOut) THEN NoTraffic ELSE OneWriteOfShadow]_vars

\* C19 amended: the one bus write of every other shift or rotate call is
\* issued when the bus selector index is valid; with an index out of range
\* no shift or rotate call issues a bus transaction.
C19_IdentityNoTraffic ==
  [][(Shifting(call') \/ Rotating(call')) =>
       IF IdentityCall(call', _dataOut) THEN NoTraffic
       ELSE IF InterfaceAvailable THEN OneWriteOfShadow
       ELSE bus' = <<>>]_vars

\* rotateLeft(8) on a driver that holds an error, a shadow other than the
\* constructor's and a chip latch that differs from it: nothing happened
C19_Witness ==
  /\ OneCall
  /\ InterfaceAvailable
  /\ call.op = "rotateLeft"
  /\ call.a = 8
  /\ bus = <<>>
  /\ s0 = 90
  /\ _dataOut = 90
  /\ latch = 255
  /\ _error # PCF8574_OK

\* C20 as stated: for each of the 256 shadows s, reverse() issues one bus
\* write, of the bit reversal of s, and leaves valueOut() equal to it: bit i
\* of the new shadow is bit 7 - i of s.
ReversalOf(byte, s) == \A i \in 0..7 : Bit(byte, i) = Bit(s, 7 - i)

C20_ReverseInEveryConfiguration ==
  (OneCall /\ call.op = "reverse") =>
    /\ Len(bus) = 1
    /\ bus[1].kind = "w"
    /\ ReversalOf(bus[1].byte, s0)
    /\ ReversalOf(_dataOut, s0)

\* C20 amended: with a valid bus selector index reverse() issues that one bus
\* write and valueOut() is the bit reversal of s afterwards; with an index
\* out of range it issues no bus transaction and valueOut() stays s.
C20_Reverse ==
  (OneCall /\ call.op = "reverse") =>
    IF InterfaceAvailable
    THEN /\ Len(bus) = 1
         /\ bus[1].kind = "w"
         /\ ReversalOf(bus[1].byte, s0)
         /\ ReversalOf(_dataOut, s0)
    ELSE /\ bus = <<>>
         /\ _dataOut = s0

\* reverse() of the shadow 13 wrote 176, which the chip did not acknowledge,
\* and the shadow is 176
C20_Witness ==
  /\ OneCall
  /\ s0 = 13
  /\ call.op = "reverse"
  /\ Len(bus) = 1
  /\ bus[1].byte = 176
  /\ bus[1].res # 0
  /\ _dataOut = 176

\* C13: with two callers on one driver object and no mutual exclusion, a
\* write8(v) that caller 2 issues between the force-high write and the
\* restoring write of caller 1's readButton8 can be lost: after both calls the
\* shadow and the chip's latch hold the value caller 1 saved before its call
\* instead of v.  When every public call runs atomically, no such state is
\* reachable.
BothDone == pc[1] = "done" /\ pc[2] = "done"

\* caller 2's write8(v) went out on the bus, and the shadow and the latch are
\* the byte caller 1 saved, which is not v
LostWrite ==
  /\ BothDone
  /\ \E k \in 3..Len(history) :
       /\ history[k].op = "write8"
       /\ history[k].a # temp1
       /\ \E i \in 1..Len(bus) : bus[i].kind = "w" /\ bus[i].byte = history[k].a
  /\ _dataOut = temp1
  /\ latch = temp1

C13_AtomicNoLostWrite == atomic => ~LostWrite

\* no lock: on the shadow 15, readButton8() with mask 255 forced the lines
\* high, write8(0) was acknowledged before the read, and the restoring write
\* put 15 back in the shadow and on the chip
C13_Witness ==
  /\ ~atomic
  /\ LostWrite
  /\ temp1 = 15
  /\ Len(bus) = 4
  /\ bus[1] = Tx("w", 1, 255, 0)
  /\ bus[2] = Tx("w", 1, 0, 0)
  /\ bus[3].kind = "r"
  /\ bus[3].byte = 0
  /\ bus[4] = Tx("w", 1, 15, 0)
  /\ call.op = "readButton8()"
  /\ call.ret = 0

\* C11: after begin() has written its initial value, between any two public
\* calls of a sequence of write8, write, toggle, toggleMask, shiftLeft,
\* shiftRight, rotateLeft, rotateRight, reverse, read8, read, readButton8 and
\* readButton calls in which no bus write has failed, valueOut() is the byte
\* most recently sent to the chip, its output latch.
C11_ShadowIsLatch ==
  (Len(history) = 2 /\ call.op = "begin" /\ bus # <<>> /\ ~writeFailed) =>
    _dataOut = latch

\* begin(15), then two calls, one of them with a failed read and one a
\* reverse(): the shadow and the latch are both 240
C11_Witness ==
  /\ Len(history) = 2
  /\ call.op = "begin"
  /\ call.a = 15
  /\ bus # <<>>
  /\ ~writeFailed
  /\ phase = 2
  /\ _error = PCF8574_I2C_ERROR
  /\ _dataOut = 240
  /\ latch = 240

====
